---- MODULE Spec2Model ----
(***************************************************************************)
(* Model of src/app.py (Code X Emotion Analyzer, a Streamlit script).      *)
(*                                                                         *)
(* A Streamlit script is executed from top to bottom once for every user   *)
(* interaction; st.session_state and the widget values survive from one    *)
(* run to the next, every local variable is recomputed.  One action of the *)
(* model is one run of the script, caused by one interaction.              *)
(*                                                                         *)
(* Numbers.  A classifier score is k / MaxScore with k in 0 .. MaxScore.   *)
(* A dict of emotions is kept as its keys in insertion order (Python dicts *)
(* iterate in insertion order), a numerator per key and one denominator:   *)
(* the value of key e is num[e] / den.  A confidence is a fraction n / d.  *)
(***************************************************************************)
EXTENDS Integers, Sequences, FiniteSets

\* ------------------------------------------------------------------ bounds
\* scores are k / MaxScore, k \in 0 .. MaxScore
MaxScore == 2
\* longest classifier output of the reconciliation specification
MaxItems == 3
\* most recordings of a session of the full specification
MaxRecordings == 2
\* most recordings of a session of the confidence-button specification
MaxTailRuns == 4
\* most lines a session appends to feedback.jsonl
MaxFeedback == 1
\* most lines feedback.jsonl holds when a session starts
MaxOldLines == 2

\* ------------------------------------------------------------- vocabulary
\* EMOTION_CONFIG.keys(), in the order of the dict literal
Emotions == <<"Anger", "Disgust", "Fear", "Happiness", "Neutral", "Sadness", "Surprise">>

EmotionSet == {Emotions[i] : i \in 1 .. Len(Emotions)}

\* the languages of the selectbox the model chooses among; the first is the default
LANGUAGES == <<"English", "Spanish">>

\* str.lower() on one character
LowerChar(c) ==
    CASE c = "A" -> "a" [] c = "B" -> "b" [] c = "C" -> "c" [] c = "D" -> "d"
      [] c = "E" -> "e" [] c = "F" -> "f" [] c = "G" -> "g" [] c = "H" -> "h"
      [] c = "I" -> "i" [] c = "J" -> "j" [] c = "K" -> "k" [] c = "L" -> "l"
      [] c = "M" -> "m" [] c = "N" -> "n" [] c = "O" -> "o" [] c = "P" -> "p"
      [] c = "Q" -> "q" [] c = "R" -> "r" [] c = "S" -> "s" [] c = "T" -> "t"
      [] c = "U" -> "u" [] c = "V" -> "v" [] c = "W" -> "w" [] c = "X" -> "x"
      [] c = "Y" -> "y" [] c = "Z" -> "z" [] OTHER -> c

\* label.lower(): a label is the sequence of its characters
Lower(label) == [i \in 1 .. Len(label) |-> LowerChar(label[i])]

\* needle in text (Python's substring test)
Contains(text, needle) ==
    \E i \in 1 .. (Len(text) - Len(needle) + 1) :
        SubSeq(text, i, i + Len(needle) - 1) = needle

\* the if / elif chain of get_emotion_from_huggingface: the canonical key a raw
\* label is stored under, "" when no branch matches
Slot(label) ==
    LET l == Lower(label) IN
    IF Contains(l, <<"a", "n", "g", "e", "r">>) THEN "Anger"
    ELSE IF Contains(l, <<"d", "i", "s", "g", "u", "s", "t">>) THEN "Disgust"
    ELSE IF Contains(l, <<"f", "e", "a", "r">>) THEN "Fear"
    ELSE IF Contains(l, <<"h", "a", "p", "p", "y">>) \/ Contains(l, <<"j", "o", "y">>)
         THEN "Happiness"
    ELSE IF Contains(l, <<"n", "e", "u", "t", "r", "a", "l">>) THEN "Neutral"
    ELSE IF Contains(l, <<"s", "a", "d">>) THEN "Sadness"
    ELSE IF Contains(l, <<"s", "u", "r", "p", "r", "i", "s", "e">>) THEN "Surprise"
    ELSE ""

\* raw labels a classifier may return: two synonyms of Happiness, a label in
\* capitals, and one that matches no branch
Joy == <<"j", "o", "y">>

Happy == <<"h", "a", "p", "p", "y">>

Sad == <<"S", "A", "D">>

Calm == <<"c", "a", "l", "m">>

RawLabels == {Joy, Happy, Sad, Calm}

\* Slot, worked out once for every raw label of the model
SlotTable == [l \in RawLabels |-> Slot(l)]

\* ------------------------------------------------------------------ dicts
ZeroNum == [e \in EmotionSet |-> 0]

\* emotions = {}
EmptyDict == [isNone |-> FALSE, keys |-> <<>>, num |-> ZeroNum, den |-> MaxScore]

\* the None a failed classification returns
None == [isNone |-> TRUE, keys |-> <<>>, num |-> ZeroNum, den |-> 1]

HasKey(d, k) == \E i \in 1 .. Len(d.keys) : d.keys[i] = k

\* d[k] = v: a new key goes to the end, a present key keeps its place and
\* takes the new value
DictSet(d, k, v) ==
    [d EXCEPT !.keys = IF HasKey(d, k) THEN @ ELSE Append(@, k), !.num[k] = v]

\* the loop over the classifier's items
RECURSIVE MapItems(_, _)
MapItems(d, items) ==
    IF items = <<>> THEN d
    ELSE LET item == Head(items)
             k == SlotTable[item.label]
         IN MapItems(IF k = "" THEN d ELSE DictSet(d, k, item.score), Tail(items))

\* "Ensure all emotions are present"
RECURSIVE EnsureAll(_, _)
EnsureAll(d, i) ==
    IF i > Len(Emotions) THEN d
    ELSE EnsureAll(IF HasKey(d, Emotions[i]) THEN d ELSE DictSet(d, Emotions[i], 0), i + 1)

RECURSIVE SumNum(_, _)
SumNum(d, i) == IF i > Len(d.keys) THEN 0 ELSE d.num[d.keys[i]] + SumNum(d, i + 1)

\* sum(emotions.values()), in units of 1 / MaxScore
Total(d) == SumNum(d, 1)

\* "Normalize scores": v / total for every key when total > 0
Normalize(d) == IF Total(d) > 0 THEN [d EXCEPT !.den = Total(d)] ELSE d

\* the body of the try block after the classifier has answered
Reconcile(result) == Normalize(EnsureAll(MapItems(EmptyDict, result), 1))

\* bool(emotions)
Truthy(d) == ~d.isNone /\ Len(d.keys) > 0

\* ------------------------------------------------------ classifier gateway
\* one item of the list client.audio_classification returns
Item(label, score) == [label |-> label, score |-> score]

Scores == 0 .. MaxScore

Items == {Item(l, s) : l \in RawLabels, s \in Scores}

SeqsUpTo(S, n) == UNION {[1 .. k -> S] : k \in 0 .. n}

\* every classifier output of at most MaxItems items
AllResults == SeqsUpTo(Items, MaxItems)

\* the classifier outputs of the session specification: one emotion, and two
\* emotions with equal scores
SessionResults ==
    { <<Item(Joy, MaxScore)>>,
      <<Item(Sad, 1), Item(Joy, 1)>> }

\* the classifier outputs of the confidence-button specification
TailResults ==
    { <<Item(Sad, 1), Item(Joy, 1)>>,
      <<Item(Joy, MaxScore), Item(Sad, 1)>> }

\* Reconcile, worked out once for the classifier outputs the session
\* specifications draw again and again
ReconcileMemo == [r \in SessionResults \cup TailResults |-> Reconcile(r)]

Reconciled(result) ==
    IF result \in DOMAIN ReconcileMemo THEN ReconcileMemo[result] ELSE Reconcile(result)

\* an answer of the classifier: the call raises, or returns a list of items
Raised == [raised |-> TRUE, result |-> <<>>]

Answer(result) == [raised |-> FALSE, result |-> result]

\* a slip in get_emotion_from_huggingface: the except branch returns the
\* (empty, then filled) emotions instead of None
get_emotion_swallowing_errors(token, cls) ==
    IF token = "" THEN None ELSE Reconcile(cls.result)

\* get_emotion_from_huggingface: None without a token or when the call raises
get_emotion_from_huggingface(token, cls) ==
    IF token = "" THEN None
    ELSE IF cls.raised THEN None
    ELSE Reconciled(cls.result)

\* ------------------------------------------------------------ preprocessing
\* a path is the file's name and extension, and whether "_processed" was put
\* in front of ".wav"
Path(name, ext) == [name |-> name, ext |-> ext, processed |-> FALSE]

\* "/tmp/recorded_audio.wav"
RecordedPath == Path("recorded_audio", "wav")

NoPath == Path("", "")

\* audio_path.replace('.wav', '_processed.wav')
ReplaceWav(path) == IF path.ext = "wav" THEN [path EXCEPT !.processed = TRUE] ELSE path

\* a slip in preprocess_audio: the except branch returns output_path
preprocess_audio_returning_output(audio_path, pre) == ReplaceWav(audio_path)

\* preprocess_audio: the output path, or audio_path itself when anything in the
\* try block raised (pre = "failed")
preprocess_audio(audio_path, pre) ==
    IF pre = "ok" THEN ReplaceWav(audio_path) ELSE audio_path

\* ---------------------------------------------------------- recording store
RECURSIVE MaxNumFrom(_, _)
MaxNumFrom(d, i) ==
    IF i > Len(d.keys) THEN 0
    ELSE LET rest == MaxNumFrom(d, i + 1)
             v == d.num[d.keys[i]]
         IN IF v >= rest THEN v ELSE rest

\* max(emotions.values()), as a numerator over emotions.den
MaxNum(d) == MaxNumFrom(d, 1)

\* max(emotions, key=emotions.get): the first key, in iteration order, whose
\* value is the largest
MaxKey(d) ==
    LET i == CHOOSE j \in 1 .. Len(d.keys) :
                 /\ d.num[d.keys[j]] = MaxNum(d)
                 /\ \A h \in 1 .. (j - 1) : d.num[d.keys[h]] < MaxNum(d)
    IN d.keys[i]

\* a confidence n / d
Frac(n, d) == [n |-> n, d |-> d]

\* the slider's default, in tenths
DefaultIntensity == 5

\* the dict save_recording builds
NewRecording(emotions, audio_path, intensity, language, timestamp) ==
    [timestamp |-> timestamp,
     emotions |-> emotions,
     dominant_emotion |-> MaxKey(emotions),
     confidence |-> Frac(MaxNum(emotions), emotions.den),
     intensity |-> intensity,
     audio_path |-> audio_path,
     language |-> language]

\* a slip in save_recording: recordings.insert(0, recording)
save_recording_in_front(recs, emotions, audio_path, intensity, language, timestamp) ==
    <<NewRecording(emotions, audio_path, intensity, language, timestamp)>> \o recs

\* save_recording: st.session_state.recordings.append(recording)
save_recording(recs, emotions, audio_path, intensity, language, timestamp) ==
    Append(recs, NewRecording(emotions, audio_path, intensity, language, timestamp))

\* the mutant of IncreaseConfidence: the first recording is scaled
IncreaseFirstConfidence(recs) ==
    [recs EXCEPT ![1].confidence = Frac(recs[1].confidence.n * 11,
                                        recs[1].confidence.d * 10)]

\* recordings[-1]['confidence'] *= 1.1
IncreaseConfidence(recs) ==
    [recs EXCEPT ![Len(recs)].confidence = Frac(@.n * 11, @.d * 10)]

\* recordings[-1]['confidence'] *= 0.9
DecreaseConfidence(recs) ==
    [recs EXCEPT ![Len(recs)].confidence = Frac(@.n * 9, @.d * 10)]

\* a slip in the Reset branch: the confidence is set to 1.0
ResetConfidenceToOne(recs, emotions) ==
    [recs EXCEPT ![Len(recs)].confidence = Frac(1, 1)]

\* recordings[-1]['confidence'] = max(emotions.values())
ResetConfidence(recs, emotions) ==
    [recs EXCEPT ![Len(recs)].confidence = Frac(MaxNum(emotions), emotions.den)]

\* the three st.button branches under "Adjust Confidence"
AdjustConfidence(recs, button, emotions) ==
    CASE button = "increase" -> IncreaseConfidence(recs)
      [] button = "decrease" -> DecreaseConfidence(recs)
      [] button = "reset" -> ResetConfidence(recs, emotions)
      [] OTHER -> recs

AdjustButtons == {"increase", "decrease", "reset"}

\* ---------------------------------------------------------- session state
VARIABLES
    recordings,         \* st.session_state.recordings
    selected_language,  \* st.session_state.selected_language
    hf_token,           \* st.session_state.hf_token, "" when not configured
    audio_file,         \* the file_uploader's value, NoFile when empty
    audio_data,         \* whether st.audio_input holds a recording
    feedback_file,      \* feedback.jsonl: whether it exists, and its lines
    clock,              \* the number of datetime.now() calls so far
    rerun,              \* st.rerun() was called and the next run has not started
    run,                \* the locals of the latest run of the script
    report,             \* what tab3 and tab4 of the latest run computed
    presses             \* history: the confidence buttons pressed on the current audio

vars == <<recordings, selected_language, hf_token, audio_file, audio_data,
          feedback_file, clock, rerun, run, report, presses>>

\* the file_uploader holds no file
NoFile == [name |-> "", ext |-> ""]

\* the files the user uploads in the model
UploadedFiles == {[name |-> "clip", ext |-> "mp3"]}

\* the locals of a run: the button that caused it, what preprocess_audio did
\* ("idle" without audio), the path given to get_emotion_from_huggingface,
\* whether it was called, whether it failed (no token, or the classifier
\* raised), the classifier's list and the value of `emotions`
RunLocals(button, pre, audio_path, processed_path, analyzed, cls, emotions) ==
    [button |-> button, pre |-> pre, audio_path |-> audio_path,
     processed_path |-> processed_path, analyzed |-> analyzed,
     failed |-> cls.raised, result |-> cls.result, emotions |-> emotions]

\* history of the confidence buttons: the buttons whose click took effect
\* since the audio widgets last changed, and the length of the store before
\* the first of them
NoPresses == [tail |-> 0, buttons |-> <<>>]

Pressed(p, button, len) ==
    [tail |-> IF p.buttons = <<>> THEN len ELSE p.tail, buttons |-> Append(p.buttons, button)]

\* a run without audio: the `if audio_file or audio_data` block is skipped
IdleRun == RunLocals("none", "idle", NoPath, NoPath, FALSE, Raised, None)

\* one entry of feedback.jsonl, as the "Submit Feedback" branch builds it
FeedbackEntry(recs, form, timestamp) ==
    [recording_idx |-> form.recording_idx,
     predicted_emotion |-> recs[form.recording_idx + 1].dominant_emotion,
     correct_emotion |-> form.correct_emotion,
     is_correct |-> (form.is_correct = "Yes"),
     helpfulness |-> form.helpfulness,
     timestamp |-> timestamp]

\* json.dumps(feedback) + '\n': one line of feedback.jsonl, the text of a
\* JSON object; a line is complete when the text runs to the closing brace
json_dumps(entry) == [text |-> entry, complete |-> TRUE]

\* json.loads(line): the object, or json.JSONDecodeError on a line that is
\* not the whole text of a JSON value
json_loads(line) == [raised |-> ~line.complete, value |-> line.text]

\* open(feedback_file, 'a'); f.write(json.dumps(feedback) + '\n')
AppendLine(file, entry) ==
    [exists |-> TRUE, lines |-> Append(file.lines, json_dumps(entry))]

RECURSIVE ReadLines(_, _)
\* for line in f: feedback_data.append(json.loads(line)); an exception of
\* json.loads is not caught and ends the loop
ReadLines(lines, feedback_data) ==
    IF lines = <<>> THEN [raised |-> FALSE, data |-> feedback_data]
    ELSE IF json_loads(Head(lines)).raised
         THEN [raised |-> TRUE, data |-> feedback_data]
         ELSE ReadLines(Tail(lines),
                        Append(feedback_data, json_loads(Head(lines)).value))

RECURSIVE SumIsCorrect(_)
\* df_feedback['is_correct'].sum(): True counts 1
SumIsCorrect(data) ==
    IF data = <<>> THEN 0
    ELSE (IF Head(data).is_correct THEN 1 ELSE 0) + SumIsCorrect(Tail(data))

RECURSIVE SumHelpfulness(_)
\* the numerator of df_feedback['helpfulness'].mean()
SumHelpfulness(data) ==
    IF data = <<>> THEN 0 ELSE Head(data).helpfulness + SumHelpfulness(Tail(data))

\* the "Feedback Statistics" section when it shows no figure: outcome is
\* "none" (the section is not reached), "absent" (feedback.jsonl does not
\* exist) or the exception that ended the run
NoStatistics(outcome) ==
    [outcome |-> outcome, accuracy |-> Frac(0, 1), avg_helpfulness |-> Frac(0, 1),
     total |-> 0]

\* the "Feedback Statistics" section: accuracy in percent, mean helpfulness
\* and number of entries.  pd.DataFrame([]) has no column, so
\* df_feedback['is_correct'] raises KeyError when no line was read.
feedback_statistics(file) ==
    IF ~file.exists THEN NoStatistics("absent")
    ELSE LET read == ReadLines(file.lines, <<>>)
         IN  IF read.raised THEN NoStatistics("JSONDecodeError")
             ELSE IF read.data = <<>> THEN NoStatistics("KeyError")
             ELSE [outcome |-> "shown",
                   accuracy |-> Frac(SumIsCorrect(read.data) * 100, Len(read.data)),
                   avg_helpfulness |-> Frac(SumHelpfulness(read.data), Len(read.data)),
                   total |-> Len(read.data)]

\* the characters of Python strings the model compares, in code point order
Alphabet ==
    <<"A", "B", "C", "D", "E", "F", "G", "H", "I", "J", "K", "L", "M",
      "N", "O", "P", "Q", "R", "S", "T", "U", "V", "W", "X", "Y", "Z",
      "a", "b", "c", "d", "e", "f", "g", "h", "i", "j", "k", "l", "m",
      "n", "o", "p", "q", "r", "s", "t", "u", "v", "w", "x", "y", "z">>

\* ord(c)
Ord(c) == CHOOSE i \in 1 .. Len(Alphabet) : Alphabet[i] = c

RECURSIVE StrLess(_, _)
\* a < b on Python strings, given as their characters
StrLess(a, b) ==
    IF b = <<>> THEN FALSE
    ELSE IF a = <<>> THEN TRUE
    ELSE IF Head(a) # Head(b) THEN Ord(Head(a)) < Ord(Head(b))
    ELSE StrLess(Tail(a), Tail(b))

\* the characters of the keys of EMOTION_CONFIG
EmotionChars ==
    [e \in EmotionSet |->
        CASE e = "Anger" -> <<"A", "n", "g", "e", "r">>
          [] e = "Disgust" -> <<"D", "i", "s", "g", "u", "s", "t">>
          [] e = "Fear" -> <<"F", "e", "a", "r">>
          [] e = "Happiness" -> <<"H", "a", "p", "p", "i", "n", "e", "s", "s">>
          [] e = "Neutral" -> <<"N", "e", "u", "t", "r", "a", "l">>
          [] e = "Sadness" -> <<"S", "a", "d", "n", "e", "s", "s">>
          [] e = "Surprise" -> <<"S", "u", "r", "p", "r", "i", "s", "e">>]

\* how many rows of df['Emotion'] hold e
Occurrences(recs, e) ==
    Cardinality({i \in 1 .. Len(recs) : recs[i].dominant_emotion = e})

\* the values of df['Emotion'].mode(): the most frequent ones
Modes(recs) ==
    {e \in EmotionSet :
        /\ Occurrences(recs, e) > 0
        /\ \A f \in EmotionSet : Occurrences(recs, f) <= Occurrences(recs, e)}

\* the mutant of most_common: the most frequent value that was stored first
most_common_first_seen(recs) ==
    recs[CHOOSE i \in 1 .. Len(recs) :
             /\ recs[i].dominant_emotion \in Modes(recs)
             /\ \A j \in 1 .. (i - 1) : recs[j].dominant_emotion \notin Modes(recs)
        ].dominant_emotion

\* df['Emotion'].mode()[0]: Series.mode() returns the most frequent values
\* sorted, so [0] is the least of them as a string
most_common(recs) ==
    CHOOSE e \in Modes(recs) :
        \A f \in Modes(recs) \ {e} : StrLess(EmotionChars[e], EmotionChars[f])

\* tab3 and tab4 of a run that did not reach them: st.rerun() ended the run,
\* or the store is empty
NoReport == [most_common |-> "", stats |-> NoStatistics("none")]

\* tab3 and tab4 of a run with a non-empty store
Report(recs, file) ==
    [most_common |-> most_common(recs), stats |-> feedback_statistics(file)]

\* what the audio decoder and the classifier may do in a run: nothing is
\* decoded without audio, and the classifier is not called without a token
PreOutcomes(hasAudio) == IF hasAudio THEN {"ok", "failed"} ELSE {"idle"}

Answers(hasAudio, token, results) ==
    IF hasAudio /\ token # "" THEN {Raised} \cup {Answer(r) : r \in results} ELSE {Raised}

\* One run of the script, from display_header() to the end of tab4 or to the
\* st.rerun() of a confidence button.
\*   lang, key, file, data: the widgets' values in this run
\*   button: the button whose click caused the run, "none" for any other cause
\*   form: the feedback form's values
\*   results: the lists the classifier may return in this run
\*   cap, fcap: the model's bounds on the store and on feedback.jsonl
ScriptRun(lang, key, file, data, button, form, results, cap, fcap) ==
    LET token == IF key # "" THEN key ELSE hf_token
        hasAudio == file # NoFile \/ data
        audio_path == IF file # NoFile THEN Path(file.name, file.ext) ELSE RecordedPath
    IN  \E pre \in PreOutcomes(hasAudio), cls \in Answers(hasAudio, token, results) :
        \E emotions \in {get_emotion_from_huggingface(token, cls)} :
        LET processed_path == preprocess_audio(audio_path, pre)
            shown == hasAudio /\ Truthy(emotions)
            clicked == shown /\ button \in AdjustButtons
            saveTime == IF shown THEN clock + 1 ELSE clock
        IN  /\ shown => Len(recordings) < cap
            /\ \E saved \in {IF shown
                             THEN save_recording(recordings, emotions, audio_path,
                                                 DefaultIntensity, lang, clock)
                             ELSE recordings} :
               \E stored \in {IF clicked THEN AdjustConfidence(saved, button, emotions)
                              ELSE saved} :
               LET submitted == ~clicked /\ stored # <<>> /\ button = "feedback"
               IN  /\ submitted => Len(feedback_file.lines) < fcap
                   /\ selected_language' = lang
                   /\ hf_token' = token
                   /\ audio_file' = file
                   /\ audio_data' = data
                   /\ recordings' = stored
                   /\ rerun' = clicked
                   /\ feedback_file' =
                          IF submitted
                          THEN AppendLine(feedback_file,
                                          FeedbackEntry(stored, form, saveTime))
                          ELSE feedback_file
                   /\ clock' = IF submitted THEN saveTime + 1 ELSE saveTime
                   /\ run' = IF hasAudio
                             THEN RunLocals(button, pre, audio_path, processed_path,
                                            TRUE, cls, emotions)
                             ELSE [IdleRun EXCEPT !.button = button]
                   /\ report' = IF clicked \/ stored = <<>>
                                THEN NoReport
                                ELSE Report(stored, feedback_file')

\* the state after the first run of a fresh session: lines 78-83, and a run
\* without audio; HUGGING_FACE_API_KEY may be set or not
Init ==
    /\ recordings = <<>>
    /\ selected_language = LANGUAGES[1]
    /\ hf_token \in {"", "hf_env"}
    /\ audio_file = NoFile
    /\ audio_data = FALSE
    /\ feedback_file = [exists |-> FALSE, lines |-> <<>>]
    /\ clock = 0
    /\ rerun = FALSE
    /\ run = IdleRun
    /\ report = NoReport
    /\ presses = NoPresses

\* ------------------------------------------------------------ environment
\* the feedback form as it is first drawn: the first recording is selected,
\* the correct emotion is the predicted one, helpfulness is 3
DefaultForm(recs) ==
    [recording_idx |-> 0,
     correct_emotion |-> IF recs # <<>> THEN recs[1].dominant_emotion ELSE Emotions[1],
     is_correct |-> "Yes",
     helpfulness |-> 3]

\* the forms the user submits: the form as drawn, with Yes or No
Forms(recs) == {[DefaultForm(recs) EXCEPT !.is_correct = yn] : yn \in {"Yes", "No"}}

\* ----------------------------------------------------------------- actions
\* a run caused by a widget that is none of the buttons
WidgetRun(lang, key, file, data, results, cap) ==
    /\ ~rerun
    /\ ScriptRun(lang, key, file, data, "none", DefaultForm(recordings), results, cap, 0)
    /\ presses' = presses

\* a run caused by the audio widgets: new audio, or none
AudioRun(file, data, results, cap) ==
    /\ ~rerun
    /\ ScriptRun(selected_language, "", file, data, "none", DefaultForm(recordings),
                 results, cap, 0)
    /\ presses' = NoPresses

\* a click on one of the three confidence buttons: they are drawn only by a
\* run that showed a result
Click(button, results, cap) ==
    /\ ~rerun
    /\ Truthy(run.emotions)
    /\ ScriptRun(selected_language, "", audio_file, audio_data, button,
                 DefaultForm(recordings), results, cap, 0)
    /\ presses' = IF rerun' THEN Pressed(presses, button, Len(recordings)) ELSE presses

\* the run st.rerun() starts
RerunScript(results, cap) ==
    /\ rerun
    /\ ScriptRun(selected_language, "", audio_file, audio_data, "none",
                 DefaultForm(recordings), results, cap, 0)
    /\ presses' = presses

\* the language selectbox
ChangeLanguage ==
    \E i \in 1 .. Len(LANGUAGES) :
        /\ LANGUAGES[i] # selected_language
        /\ WidgetRun(LANGUAGES[i], "", audio_file, audio_data, SessionResults, MaxRecordings)

\* the API key text input
EnterApiKey ==
    /\ hf_token = ""
    /\ WidgetRun(selected_language, "hf_key", audio_file, audio_data, SessionResults, MaxRecordings)

\* st.audio_input: a new recording
RecordAudio == AudioRun(audio_file, TRUE, SessionResults, MaxRecordings)

\* st.audio_input: the recording is deleted
ClearAudio ==
    /\ audio_data
    /\ AudioRun(audio_file, FALSE, SessionResults, MaxRecordings)

\* any other widget: the prompt selectboxes, the comparison multiselect, the
\* fields of the feedback form; the analytics of tab3 are recomputed
Interact ==
    WidgetRun(selected_language, "", audio_file, audio_data, SessionResults, MaxRecordings)

ClickIncrease == Click("increase", SessionResults, MaxRecordings)

ClickDecrease == Click("decrease", SessionResults, MaxRecordings)

ClickReset == Click("reset", SessionResults, MaxRecordings)

Rerun == RerunScript(SessionResults, MaxRecordings)

\* "Submit Feedback": the form is drawn when the store is not empty
SubmitFeedback ==
    /\ ~rerun
    /\ recordings # <<>>
    /\ \E form \in Forms(recordings) :
           ScriptRun(selected_language, "", audio_file, audio_data, "feedback",
                     form, SessionResults, MaxRecordings, MaxFeedback)
    /\ presses' = presses

Next ==
    \/ ChangeLanguage
    \/ EnterApiKey
    \/ RecordAudio
    \/ ClearAudio
    \/ Interact
    \/ ClickIncrease
    \/ ClickDecrease
    \/ ClickReset
    \/ Rerun
    \/ SubmitFeedback

\* a whole session
Spec == Init /\ [][Next]_vars

\* --------------------------------------------- the first analysis of a session
\* st.audio_input on a fresh session, the classifier answering anything
FirstRecord ==
    /\ ~run.analyzed
    /\ AudioRun(NoFile, TRUE, AllResults, 1)

\* st.file_uploader on a fresh session, the classifier answering anything
FirstUpload ==
    /\ ~run.analyzed
    /\ \E f \in UploadedFiles : AudioRun(f, audio_data, AllResults, 1)

NextReconcile == FirstRecord \/ FirstUpload

SpecReconcile == Init /\ [][NextReconcile]_vars

\* ------------------------------------------------- the confidence buttons
TailEnterApiKey ==
    /\ hf_token = ""
    /\ WidgetRun(selected_language, "hf_key", audio_file, audio_data, TailResults, MaxTailRuns)

TailRecord == AudioRun(audio_file, TRUE, TailResults, MaxTailRuns)

TailIncrease == Click("increase", TailResults, MaxTailRuns)

TailDecrease == Click("decrease", TailResults, MaxTailRuns)

TailReset == Click("reset", TailResults, MaxTailRuns)

TailRerun == RerunScript(TailResults, MaxTailRuns)

NextTail ==
    \/ TailEnterApiKey
    \/ TailRecord
    \/ TailIncrease
    \/ TailDecrease
    \/ TailReset
    \/ TailRerun

\* a session in which the user records and presses the confidence buttons
SpecTail == Init /\ [][NextTail]_vars

\* ------------------------------------------------- the feedback statistics
\* an entry an earlier session appended to feedback.jsonl
OldEntry(is_correct, helpfulness) ==
    [recording_idx |-> 0,
     predicted_emotion |-> "Neutral",
     correct_emotion |-> IF is_correct THEN "Neutral" ELSE "Fear",
     is_correct |-> is_correct,
     helpfulness |-> helpfulness,
     timestamp |-> 0]

\* a line of feedback.jsonl that was cut short: it is not the text of a JSON
\* value any more
Truncated(line) == [line EXCEPT !.complete = FALSE]

\* the lines feedback.jsonl may hold when a session starts
OldLines ==
    {json_dumps(OldEntry(TRUE, 5)), json_dumps(OldEntry(FALSE, 2)),
     Truncated(json_dumps(OldEntry(TRUE, 5)))}

\* feedback.jsonl when a session starts: it does not exist, or it holds the
\* lines earlier sessions left, none included
OldFiles ==
    {[exists |-> FALSE, lines |-> <<>>]}
        \cup {[exists |-> TRUE, lines |-> l] : l \in SeqsUpTo(OldLines, MaxOldLines)}

\* the first run of a session that finds a feedback.jsonl of earlier sessions
InitLedger ==
    /\ recordings = <<>>
    /\ selected_language = LANGUAGES[1]
    /\ hf_token = "hf_env"
    /\ audio_file = NoFile
    /\ audio_data = FALSE
    /\ feedback_file \in OldFiles
    /\ clock = 0
    /\ rerun = FALSE
    /\ run = IdleRun
    /\ report = NoReport
    /\ presses = NoPresses

LedgerRecord == AudioRun(audio_file, TRUE, SessionResults, MaxRecordings)

LedgerClearAudio ==
    /\ audio_data
    /\ AudioRun(audio_file, FALSE, SessionResults, MaxRecordings)

LedgerInteract ==
    WidgetRun(selected_language, "", audio_file, audio_data, SessionResults, MaxRecordings)

LedgerSubmit ==
    /\ ~rerun
    /\ recordings # <<>>
    /\ \E form \in Forms(recordings) :
           ScriptRun(selected_language, "", audio_file, audio_data, "feedback",
                     form, SessionResults, MaxRecordings, MaxOldLines + MaxFeedback)
    /\ presses' = presses

NextLedger ==
    \/ LedgerRecord
    \/ LedgerClearAudio
    \/ LedgerInteract
    \/ LedgerSubmit

\* a session that records, submits feedback and reads the statistics of a
\* feedback.jsonl that earlier sessions wrote
SpecLedger == InitLedger /\ [][NextLedger]_vars

\* =================================================================== claims
\* the keys of a dict, as a set
KeySet(d) == {d.keys[i] : i \in 1 .. Len(d.keys)}

\* the latest run classified audio and the classifier returned a list
Classified == run.analyzed /\ ~run.failed

RECURSIVE SlotSum(_, _)
\* the sum of the scores of the items of a classifier output that map to slot e
SlotSum(result, e) ==
    IF result = <<>> THEN 0
    ELSE (IF Slot(Head(result).label) = e THEN Head(result).score ELSE 0)
         + SlotSum(Tail(result), e)

RECURSIVE MatchedFrom(_, _)
MatchedFrom(result, i) ==
    IF i > Len(Emotions) THEN 0
    ELSE SlotSum(result, Emotions[i]) + MatchedFrom(result, i + 1)

\* the sum of the scores of all the items that map to some slot
MatchedSum(result) == MatchedFrom(result, 1)

\* the 7 slots of a classifier output after the label mapping, before the
\* normalisation
Mapped(result) == EnsureAll(MapItems(EmptyDict, result), 1)

\* the first label, in canonical order, whose value in d is the largest
CanonicalArgMax(d) ==
    LET i == CHOOSE j \in 1 .. Len(Emotions) :
                 /\ \A e \in EmotionSet : d.num[e] <= d.num[Emotions[j]]
                 /\ \A h \in 1 .. (j - 1) : d.num[Emotions[h]] < d.num[Emotions[j]]
    IN Emotions[i]

\* C1: whatever list the classifier returns, the reconciled vector has exactly
\* the 7 canonical labels, no negative value, and its values sum to 1.
ReconciledIsDistribution ==
    Classified =>
        /\ Len(run.emotions.keys) = Len(Emotions)
        /\ KeySet(run.emotions) = EmotionSet
        /\ \A e \in EmotionSet : run.emotions.num[e] >= 0
        /\ Total(run.emotions) = run.emotions.den

\* C2: when the 7 slots total 0 after the label mapping, every slot of the
\* reconciled vector is 1/7.
ZeroTotalGivesUniform ==
    (Classified /\ Total(Mapped(run.result)) = 0) =>
        \A e \in EmotionSet : run.emotions.num[e] * Len(Emotions) = run.emotions.den

\* C3: a slot that several raw labels map to holds the sum of their scores, so
\* a normalised slot is (the sum of the scores mapped to it) / (the sum of all
\* the matched scores).
DuplicateLabelsAreSummed ==
    (Classified /\ MatchedSum(run.result) > 0) =>
        \A e \in EmotionSet :
            run.emotions.num[e] * MatchedSum(run.result)
                = SlotSum(run.result, e) * run.emotions.den

\* C4: the dominant emotion of every stored recording has the largest score of
\* its vector, and among equal largest scores it is the first in canonical
\* order, whatever the order of the classifier's list.
DominantIsCanonicalFirstMax ==
    \A i \in 1 .. Len(recordings) :
        /\ recordings[i].dominant_emotion \in EmotionSet
        /\ recordings[i].emotions.num[recordings[i].dominant_emotion]
               = MaxNum(recordings[i].emotions)
        /\ recordings[i].dominant_emotion = CanonicalArgMax(recordings[i].emotions)

\* fractions a and b are the same number
FracEq(a, b) == a.n * b.d = b.n * a.d

\* max(r['emotions'].values()) of a stored recording
MaxScoreOf(r) == Frac(MaxNum(r.emotions), r.emotions.den)

\* a recording without its confidence
Fixed(r) == [r EXCEPT !.confidence = Frac(0, 1)]

\* the step is a run that called get_emotion_from_huggingface and got None
FailedAttempt == run'.analyzed /\ run'.failed

\* C5: a classification attempt that fails (no token, or the classifier
\* raises) leaves the recordings as they were, and a recording is appended
\* only by a run whose classification returned a vector, which it stores.
FailedAttemptAppendsNothing ==
    [][/\ FailedAttempt => recordings' = recordings
       /\ Len(recordings') > Len(recordings) =>
              /\ run'.analyzed /\ ~run'.failed
              /\ Len(recordings') = Len(recordings) + 1
              /\ recordings'[Len(recordings')].emotions = run'.emotions]_vars

\* C5, its case: a classification failed while the store held a recording
FailedAttemptSeen ==
    /\ recordings # <<>>
    /\ run.analyzed /\ run.failed
    /\ hf_token # ""

\* C6: when preprocess_audio fails, the run goes on: the path it returns is
\* the unprocessed audio's, and get_emotion_from_huggingface is called on it.
PreprocessFailureFallsBack ==
    run.pre = "failed" =>
        /\ run.analyzed
        /\ run.processed_path = run.audio_path
        /\ ~run.processed_path.processed

\* C6, its case: preprocessing failed and the unprocessed recording was
\* classified and stored
PreprocessFailureSeen ==
    /\ run.pre = "failed"
    /\ ~run.failed
    /\ recordings # <<>>
    /\ recordings[Len(recordings)].emotions = run.emotions

\* C7: after Increase then Decrease on the same audio, the recording that was
\* the tail before the first press is still the tail and its confidence is
\* 0.99 times the largest score of its vector.
IncreaseThenDecreaseCompounds ==
    presses.buttons = <<"increase", "decrease">> =>
        /\ Len(recordings) = presses.tail
        /\ FracEq(Frac(recordings[presses.tail].confidence.n * 100,
                       recordings[presses.tail].confidence.d),
                  Frac(MaxScoreOf(recordings[presses.tail]).n * 99,
                       MaxScoreOf(recordings[presses.tail]).d))

\* C8: a press of Increase, Decrease or Reset changes the confidence of one
\* recording and nothing else of the store: the same number of recordings,
\* each with the vector, dominant emotion, timestamp and language it had.
AdjustmentChangesOnlyConfidence ==
    [][(~rerun /\ rerun') =>
          /\ Len(recordings') = Len(recordings)
          /\ \A i \in 1 .. Len(recordings) : Fixed(recordings'[i]) = Fixed(recordings[i])
          /\ Cardinality({i \in 1 .. Len(recordings) : recordings'[i] # recordings[i]}) <= 1]_vars

\* C9: once Reset has been pressed, whatever presses came before, the
\* confidence of the tail recording is the largest score of its own vector.
ResetRestoresMaxScore ==
    (presses.buttons # <<>> /\ presses.buttons[Len(presses.buttons)] = "reset") =>
        FracEq(recordings[Len(recordings)].confidence,
               MaxScoreOf(recordings[Len(recordings)]))

\* C9, its case: Reset was pressed after an Increase, on a vector whose
\* largest score is below 1
ResetAfterIncreaseSeen ==
    /\ presses.buttons = <<"increase", "reset">>
    /\ rerun
    /\ ~FracEq(MaxScoreOf(recordings[Len(recordings)]), Frac(1, 1))

\* C10: no step removes or reorders a recording: the store before a step is a
\* prefix of the store after it, confidences aside.
RecordingsAppendOnly ==
    [][/\ Len(recordings') >= Len(recordings)
       /\ \A i \in 1 .. Len(recordings) : Fixed(recordings'[i]) = Fixed(recordings[i])]_vars

\* C10, its case: two recordings, the confidence of the second adjusted, then
\* the language changed and feedback submitted
SessionGrewSeen ==
    /\ Len(recordings) = 2
    /\ selected_language # recordings[2].language
    /\ ~FracEq(recordings[2].confidence, MaxScoreOf(recordings[2]))
    /\ feedback_file.lines # <<>>

\* the lines of feedback.jsonl that are whole JSON objects
IsComplete(line) == line.complete

WellFormed(lines) ==
    LET whole == SelectSeq(lines, IsComplete)
    IN  [i \in 1 .. Len(whole) |-> whole[i].text]

HasCorrupted(lines) == \E i \in 1 .. Len(lines) : ~lines[i].complete

\* the latest run reached the "Feedback Statistics" section
StatisticsReached == report.most_common # ""

\* the section shows the figures computed over the entries data
ShowsFiguresOf(data) ==
    /\ report.stats.outcome = "shown"
    /\ FracEq(report.stats.accuracy, Frac(SumIsCorrect(data) * 100, Len(data)))
    /\ FracEq(report.stats.avg_helpfulness, Frac(SumHelpfulness(data), Len(data)))
    /\ report.stats.total = Len(data)

\* C11: when feedback.jsonl holds a corrupted line, reading it for the
\* statistics does not fail, and the accuracy, the mean helpfulness and the
\* count are those of the well-formed entries.
CorruptedLineIsSkipped ==
    (StatisticsReached /\ feedback_file.exists /\ HasCorrupted(feedback_file.lines)) =>
        /\ report.stats.outcome \notin {"JSONDecodeError", "KeyError"}
        /\ WellFormed(feedback_file.lines) # <<>> =>
               ShowsFiguresOf(WellFormed(feedback_file.lines))

\* C12: with no entry in the ledger (feedback.jsonl absent, or present and
\* empty) the statistics show no figure and do not fail; with entries the
\* accuracy is the number of correct ones over the number of entries.
AccuracyNeedsAnEntry ==
    (StatisticsReached /\ ~HasCorrupted(feedback_file.lines)) =>
        IF feedback_file.lines = <<>>
        THEN report.stats.outcome \notin {"shown", "JSONDecodeError", "KeyError"}
        ELSE /\ report.stats.outcome = "shown"
             /\ FracEq(report.stats.accuracy,
                       Frac(SumIsCorrect(WellFormed(feedback_file.lines)) * 100,
                            Len(feedback_file.lines)))

\* the place of a label in the canonical order
CanonicalIndex(e) == CHOOSE i \in 1 .. Len(Emotions) : Emotions[i] = e

\* C13: for a non-empty store the analytics report a most common emotion: a
\* dominant emotion no other occurs more often than, and the first in
\* canonical order of those that occur as often.
MostCommonIsCanonicalFirst ==
    /\ (recordings # <<>> /\ ~rerun) => report.most_common # ""
    /\ report.most_common # "" =>
           /\ Occurrences(recordings, report.most_common) > 0
           /\ \A e \in EmotionSet :
                  /\ Occurrences(recordings, e)
                         <= Occurrences(recordings, report.most_common)
                  /\ Occurrences(recordings, e)
                         = Occurrences(recordings, report.most_common)
                     => CanonicalIndex(report.most_common) <= CanonicalIndex(e)

\* C13, its case: two recordings, Sadness stored before Happiness, each once
MostCommonTieSeen ==
    /\ Len(recordings) = 2
    /\ recordings[1].dominant_emotion = "Sadness"
    /\ recordings[2].dominant_emotion = "Happiness"
    /\ report.most_common = "Happiness"

\* the confidence a button gives a recording whose confidence is its
\* largest score
Adjusted(button, r) ==
    CASE button = "increase" -> Frac(MaxScoreOf(r).n * 11, MaxScoreOf(r).d * 10)
      [] button = "decrease" -> Frac(MaxScoreOf(r).n * 9, MaxScoreOf(r).d * 10)
      [] OTHER -> MaxScoreOf(r)

\* C14: a step that applies Increase, Decrease or Reset leaves a non-empty
\* store, modifies its last recording and no other, and that recording is
\* the one the same run made from its classification of the current audio.
AdjustmentIsOnFreshTail ==
    [][rerun' =>
          /\ recordings' # <<>>
          /\ run'.button \in AdjustButtons
          /\ run'.analyzed /\ ~run'.failed
          /\ \A i \in 1 .. Len(recordings) :
                 i < Len(recordings') /\ recordings'[i] = recordings[i]
          /\ recordings'[Len(recordings')].emotions = run'.emotions
          /\ recordings'[Len(recordings')].audio_path = run'.audio_path
          /\ FracEq(recordings'[Len(recordings')].confidence,
                    Adjusted(run'.button, recordings'[Len(recordings')]))]_vars

\* C14, its case: Increase was applied to the third recording of a session
\* and the two before it kept their confidence
FreshTailAdjustedSeen ==
    /\ rerun
    /\ run.button = "increase"
    /\ Len(recordings) = 3
    /\ ~FracEq(recordings[3].confidence, MaxScoreOf(recordings[3]))
    /\ FracEq(recordings[1].confidence, MaxScoreOf(recordings[1]))
    /\ FracEq(recordings[2].confidence, MaxScoreOf(recordings[2]))

====
